---- MODULE Spec2Model ----
(***************************************************************************)
(* Model of the Flappy Bird component in src/src/app/game.tsx.             *)
(*                                                                         *)
(* Units: every length, position and velocity is an integer number of      *)
(* TENTHS of a layout unit, so that GRAVITY = 0.6 is the integer 6 and     *)
(* the source's 100, 50, 20 become 1000, 500, 200.                         *)
(*                                                                         *)
(* React state (isGameStarted, isGameOver, score, pipes) is kept twice:    *)
(* the current value, written by the setters, and for the two flags the    *)
(* value captured by the closures of the last render (rIsGameStarted,      *)
(* rIsGameOver), which is what handleTap and startGame read.  Render       *)
(* refreshes the captured values.                                          *)
(*                                                                         *)
(* setInterval handles are numbered 1, 2, ...; tickTimers and spawnTimers  *)
(* are the handles that are still active.                                  *)
(***************************************************************************)
EXTENDS Integers, Sequences, FiniteSets, TLC

\* ---- program constants (game.tsx:22-26, 93-94), in tenths ----
GRAVITY == 6
JUMP_HEIGHT == -120
PIPE_WIDTH == 800
PIPE_GAP == 2000
PIPE_SPEED == 20
birdX == 1000
birdRadius == 200
GroundMargin == 1000
CeilingMargin == 500
SpawnMargin == 1000

\* ---- inputs of useWindowDimensions (game.tsx:36), in tenths ----
\* Heights: a phone in portrait.  SmallHeights: a window too low for the
\* spawn range (height < PIPE_GAP + 200).  Widths: a narrow window, so that
\* an obstacle reaches the avatar within a few ticks.
Heights == {8000}
SmallHeights == {2200}
Widths == {240}

\* ---- bounds of the model ----
\* MaxTicks: tick callbacks modelled in one behaviour.  MaxPipes: obstacles
\* alive at once.  MaxStarts: interval pairs created in one behaviour.
\* RandDen: Math.random() is drawn from {0/RandDen, ..., (RandDen-1)/RandDen}.
\* FallTicks: the ticks of free fall that precede InitFall.
MaxTicks == 6
MaxPipes == 2
MaxStarts == 3
RandDen == 2
FallTicks == 28

VARIABLES
    mounted,                    \* FALSE once the unmount cleanup has run
    height, width,              \* useWindowDimensions
    isGameStarted, isGameOver,  \* useState flags, current value
    rIsGameStarted, rIsGameOver,\* the flags as captured by the last render
    score, pipes,               \* useState
    birdY, birdVelocity, birdRotation, \* shared values
    gameLoopRef, pipeGenerationRef,    \* refs: a handle, or 0 for undefined
    tickTimers, spawnTimers,    \* active interval handles
    starts, ticks,              \* startGame bodies / tick callbacks run so far
    trace                       \* the steps of the last handler, in order

vars == <<mounted, height, width, isGameStarted, isGameOver, rIsGameStarted,
          rIsGameOver, score, pipes, birdY, birdVelocity, birdRotation,
          gameLoopRef, pipeGenerationRef, tickTimers, spawnTimers,
          starts, ticks, trace>>

\* The phase shown by the render: 'Game Over!' when isGameOver, the start
\* screen when not started, the running game otherwise.
Phase ==
    IF isGameOver THEN "Ended"
    ELSE IF isGameStarted THEN "Playing" ELSE "Idle"

InitialBirdY(h) == h \div 2

\* interpolate(v, [-10, 10], [-20, 90], 'clamp'), in tenths
Interpolate(v) ==
    LET c == IF v < -100 THEN -100 ELSE IF v > 100 THEN 100 ELSE v
    IN  ((c + 100) * 1100) \div 200 - 200

\* The state after the component is constructed, for a height in hs.
Construct(hs) ==
    /\ mounted = TRUE
    /\ height \in hs
    /\ width \in Widths
    /\ isGameStarted = FALSE
    /\ isGameOver = FALSE
    /\ rIsGameStarted = FALSE
    /\ rIsGameOver = FALSE
    /\ score = 0
    /\ pipes = <<>>
    /\ birdY = InitialBirdY(height)
    /\ birdVelocity = 0
    /\ birdRotation = 0
    /\ gameLoopRef = 0
    /\ pipeGenerationRef = 0
    /\ tickTimers = {}
    /\ spawnTimers = {}
    /\ starts = 0
    /\ ticks = 0
    /\ trace = <<>>

Init == Construct(Heights)

InitSmall == Construct(SmallHeights)

\* The state FallTicks ticks into a game: startGame has run once from the
\* state after construction, the component has re-rendered, and the game loop
\* has fired FallTicks times with no tap and no spawn (28 ticks are 448 ms,
\* the first spawn comes after 2000 ms).  Each tick added GRAVITY to the
\* velocity and the velocity to the position.  ticks counts from here.
InitFall ==
    /\ mounted = TRUE
    /\ height \in Heights
    /\ width \in Widths
    /\ isGameStarted = TRUE
    /\ isGameOver = FALSE
    /\ rIsGameStarted = TRUE
    /\ rIsGameOver = FALSE
    /\ score = 0
    /\ pipes = <<>>
    /\ birdVelocity = GRAVITY * FallTicks
    /\ birdY = InitialBirdY(height) + (GRAVITY * FallTicks * (FallTicks + 1)) \div 2
    /\ birdRotation = Interpolate(birdVelocity)
    /\ gameLoopRef = 1
    /\ pipeGenerationRef = 1
    /\ tickTimers = {1}
    /\ spawnTimers = {1}
    /\ starts = 1
    /\ ticks = 0
    /\ trace = <<"integrate">>

\* The state right after the first startGame and the re-render that follows
\* it, for a height in hs.
InitStarted(hs) ==
    /\ mounted = TRUE
    /\ height \in hs
    /\ width \in Widths
    /\ isGameStarted = TRUE
    /\ isGameOver = FALSE
    /\ rIsGameStarted = TRUE
    /\ rIsGameOver = FALSE
    /\ score = 0
    /\ pipes = <<>>
    /\ birdY = InitialBirdY(height)
    /\ birdVelocity = 0
    /\ birdRotation = 0
    /\ gameLoopRef = 1
    /\ pipeGenerationRef = 1
    /\ tickTimers = {1}
    /\ spawnTimers = {1}
    /\ starts = 1
    /\ ticks = 0
    /\ trace = <<"render">>

\* The state 50 ticks into a game on the 800-unit playfield, with the first
\* pipe about to leave the screen: startGame, re-render, one spawn with
\* Math.random() = 1/2 (topHeight 300, bottomHeight 300), 20 ticks of free
\* fall (position 526, velocity 12; the pipe was passed in the 3rd tick and
\* left the avatar's column in the 12th), one jump, 30 more ticks
\* (velocity -12 + 30 * 0.6 = 6, position 526 - 30 * 12 + 0.6 * 465 = 445).
\* The pipe has moved from 24 to 24 - 50 * 2 = -76.  ticks counts from here.
InitOld ==
    /\ mounted = TRUE
    /\ height = 8000
    /\ width = 240
    /\ isGameStarted = TRUE
    /\ isGameOver = FALSE
    /\ rIsGameStarted = TRUE
    /\ rIsGameOver = FALSE
    /\ score = 1
    /\ pipes = <<[x |-> -760, topHeight |-> 3000, bottomHeight |-> 3000,
                  passed |-> TRUE]>>
    /\ birdVelocity = 60
    /\ birdY = 4450
    /\ birdRotation = Interpolate(60)
    /\ gameLoopRef = 1
    /\ pipeGenerationRef = 1
    /\ tickTimers = {1}
    /\ spawnTimers = {1}
    /\ starts = 1
    /\ ticks = 0
    /\ trace = <<"integrate", "advance", "evaluate">>

\* ---- helpers ----

\* the velocity update without gravity
NextVelocity_NoGravity(v) == v

\* line 72: birdVelocity.value += GRAVITY
NextVelocity(v) == v + GRAVITY

\* the position update taking the velocity from before the tick
NextPosition_OldVelocity(y, v) == y + (v - GRAVITY)

\* line 73: birdY.value += birdVelocity.value, v being the updated velocity
NextPosition(y, v) == y + v

\* setScore(score + 1) on the score captured when startGame ran (0)
IncrementScore_StaleClosure(prev, n) == IF n > 0 THEN 1 ELSE prev

\* lines 147-149: n calls of setScore(prev => prev + 1)
IncrementScore(prev, n) == prev + n

\* setPipes([...pipes, pipe]) on the list captured when startGame ran ([])
SpawnUpdate_StaleClosure(currentPipes, pipe) == <<pipe>>

\* lines 125-133: the updater of the spawn callback
SpawnUpdate(currentPipes, pipe) == Append(currentPipes, pipe)

\* the ground test without the 100-unit ground strip
OutOfBounds_NoGroundStrip(y, h) == y > h \/ y < CeilingMargin

\* line 81: the ground / ceiling test
OutOfBounds(y, h) == y > h - GroundMargin \/ y < CeilingMargin

\* the overlap test without its bottom-barrier half
Collides_TopOnly(pipe, y, h) ==
    /\ birdX + birdRadius > pipe.x
    /\ birdX - birdRadius < pipe.x + PIPE_WIDTH
    /\ y - birdRadius < pipe.topHeight

\* lines 98-103: the overlap test of one pipe against the bird at height y
Collides(pipe, y, h) ==
    /\ birdX + birdRadius > pipe.x
    /\ birdX - birdRadius < pipe.x + PIPE_WIDTH
    /\ \/ y - birdRadius < pipe.topHeight
       \/ y + birdRadius > h - pipe.bottomHeight

\* the passage test without the !pipe.passed guard
Passes_IgnoresFlag(pipe) == pipe.x + PIPE_WIDTH < birdX

\* line 109: the passage test
Passes(pipe) == ~pipe.passed /\ pipe.x + PIPE_WIDTH < birdX

\* the advance that leaves the oldest pipe where it is
Advance_SkipsFirst(ps) ==
    [i \in 1..Len(ps) |-> IF i = 1 THEN ps[i] ELSE [ps[i] EXCEPT !.x = @ - PIPE_SPEED]]

\* lines 87-90: every pipe moves left by PIPE_SPEED
Advance(ps) == [i \in 1..Len(ps) |-> [ps[i] EXCEPT !.x = @ - PIPE_SPEED]]

\* the filter that keeps a pipe whose trailing edge is exactly at 0
OnScreen_KeepsEdge(pipe) == pipe.x >= -PIPE_WIDTH

\* line 116: the filter keeping the pipes that are still on screen
OnScreen(pipe) == pipe.x > -PIPE_WIDTH
Prune(ps) == SelectSeq(ps, OnScreen)

Opt(cond, toks) == IF cond THEN toks ELSE <<>>

\* lines 97-113: the scan over the advanced pipes from index i on.  sync says
\* whether runOnJS(f)() runs f at once or queues it behind the callback.
\* Result: the pipes with their passed flags, the number of incrementScore
\* calls, whether endGame was called, the steps in order, and the queued
\* calls.
RECURSIVE Scan(_, _, _, _, _)
Scan(ps, i, y, h, sync) ==
    IF i > Len(ps)
    THEN [ps |-> ps, inc |-> 0, hit |-> FALSE, log |-> <<>>, queued |-> <<>>]
    ELSE IF Collides(ps[i], y, h)
    THEN [ps |-> ps, inc |-> 0, hit |-> TRUE,
          log |-> <<"evaluate", "terminate">> \o Opt(sync, <<"endGame">>),
          queued |-> Opt(~sync, <<"endGame">>)]
    ELSE LET flip == Passes(ps[i])
             ps2 == IF flip THEN [ps EXCEPT ![i].passed = TRUE] ELSE ps
             rest == Scan(ps2, i + 1, y, h, sync)
         IN  [rest EXCEPT
                !.inc = @ + (IF flip THEN 1 ELSE 0),
                !.log = <<"evaluate">>
                        \o Opt(flip, <<"passed">> \o Opt(sync, <<"score">>))
                        \o @,
                !.queued = Opt(flip /\ ~sync, <<"score">>) \o @]

\* lines 122-123: the geometry of a new pipe for the random draw r / RandDen
TopHeight(h, r) == (r * (h - PIPE_GAP - 2 * SpawnMargin)) \div RandDen + SpawnMargin
BottomHeight(h, top) == h - top - PIPE_GAP

\* ---- operations ----

\* lines 70-118: one run of the game-loop interval callback
Tick ==
    /\ tickTimers # {}
    /\ ticks < MaxTicks
    /\ \E sync \in BOOLEAN :
        LET v == NextVelocity(birdVelocity)
            y == NextPosition(birdY, v)
            boundary == OutOfBounds(y, height)
            newPipes == Advance(pipes)
            scan == Scan(newPipes, 1, y, height, sync)
            kept == Prune(scan.ps)
            ended == boundary \/ scan.hit
        IN  /\ birdVelocity' = v
            /\ birdY' = y
            /\ birdRotation' = Interpolate(v)
            /\ pipes' = kept
            /\ score' = IncrementScore(score, scan.inc)
            \* endGame, lines 137-145
            /\ isGameOver' = (isGameOver \/ ended)
            /\ tickTimers' = IF ended THEN tickTimers \ {gameLoopRef}
                             ELSE tickTimers
            /\ spawnTimers' = IF ended THEN spawnTimers \ {pipeGenerationRef}
                              ELSE spawnTimers
            /\ trace' = <<"integrate">>
                        \o Opt(boundary, <<"terminate">> \o Opt(sync, <<"endGame">>))
                        \o Opt(pipes # <<>>, <<"advance">>)
                        \o scan.log
                        \o Opt(Len(kept) < Len(newPipes), <<"prune">>)
                        \o Opt(boundary /\ ~sync, <<"endGame">>)
                        \o scan.queued
    /\ ticks' = ticks + 1
    /\ UNCHANGED <<mounted, height, width, isGameStarted, rIsGameStarted, rIsGameOver,
                   gameLoopRef, pipeGenerationRef, starts>>

\* lines 121-134: one run of the pipe-generation interval callback
SpawnTick ==
    /\ spawnTimers # {}
    /\ Len(pipes) < MaxPipes
    /\ \E r \in 0..(RandDen - 1) :
        LET topHeight == TopHeight(height, r)
            bottomHeight == BottomHeight(height, topHeight)
        IN  pipes' = SpawnUpdate(pipes, [x |-> width, topHeight |-> topHeight,
                                         bottomHeight |-> bottomHeight,
                                         passed |-> FALSE])
    /\ trace' = <<"spawn">>
    /\ UNCHANGED <<mounted, height, width, isGameStarted, isGameOver, rIsGameStarted,
                   rIsGameOver, score, birdY, birdVelocity, birdRotation,
                   gameLoopRef, pipeGenerationRef, tickTimers, spawnTimers,
                   starts, ticks>>

\* resetGame without setScore(0)
ResetGame_KeepsScore ==
    /\ birdY' = InitialBirdY(height)
    /\ birdVelocity' = 0
    /\ birdRotation' = 0
    /\ score' = score
    /\ pipes' = <<>>
    /\ isGameOver' = FALSE
    /\ isGameStarted' = FALSE
    /\ trace' = <<"resetGame">>
    /\ UNCHANGED <<mounted, height, width, rIsGameStarted, rIsGameOver, gameLoopRef,
                   pipeGenerationRef, tickTimers, spawnTimers, starts, ticks>>

\* lines 51-59
ResetGame ==
    /\ birdY' = InitialBirdY(height)
    /\ birdVelocity' = 0
    /\ birdRotation' = 0
    /\ score' = 0
    /\ pipes' = <<>>
    /\ isGameOver' = FALSE
    /\ isGameStarted' = FALSE
    /\ trace' = <<"resetGame">>
    /\ UNCHANGED <<mounted, height, width, rIsGameStarted, rIsGameOver, gameLoopRef,
                   pipeGenerationRef, tickTimers, spawnTimers, starts, ticks>>

\* lines 61-135, as seen by the closure of the last render
StartGame ==
    IF rIsGameOver
    THEN ResetGame
    ELSE /\ starts < MaxStarts
         /\ isGameStarted' = TRUE
         /\ starts' = starts + 1
         /\ gameLoopRef' = starts + 1
         /\ tickTimers' = tickTimers \cup {starts + 1}
         /\ pipeGenerationRef' = starts + 1
         /\ spawnTimers' = spawnTimers \cup {starts + 1}
         /\ trace' = <<"startGame">>
         /\ UNCHANGED <<mounted, height, width, isGameOver, rIsGameStarted, rIsGameOver,
                        score, pipes, birdY, birdVelocity, birdRotation, ticks>>

\* the jump that adds the impulse to the velocity
Jump_AddsImpulse ==
    /\ birdVelocity' = birdVelocity + JUMP_HEIGHT
    /\ birdRotation' = 0
    /\ trace' = <<"jump">>
    /\ UNCHANGED <<mounted, height, width, isGameStarted, isGameOver, rIsGameStarted,
                   rIsGameOver, score, pipes, birdY, gameLoopRef,
                   pipeGenerationRef, tickTimers, spawnTimers, starts, ticks>>

\* lines 162-167
Jump ==
    /\ birdVelocity' = JUMP_HEIGHT
    /\ birdRotation' = 0
    /\ trace' = <<"jump">>
    /\ UNCHANGED <<mounted, height, width, isGameStarted, isGameOver, rIsGameStarted,
                   rIsGameOver, score, pipes, birdY, gameLoopRef,
                   pipeGenerationRef, tickTimers, spawnTimers, starts, ticks>>

\* lines 151-168
HandleTap ==
    /\ mounted
    /\ IF ~rIsGameStarted /\ ~rIsGameOver THEN StartGame
       ELSE IF rIsGameOver THEN ResetGame
       ELSE Jump

\* a re-render: the closures capture the current flags
Render ==
    /\ mounted
    /\ <<rIsGameStarted, rIsGameOver>> # <<isGameStarted, isGameOver>>
    /\ rIsGameStarted' = isGameStarted
    /\ rIsGameOver' = isGameOver
    /\ trace' = <<"render">>
    /\ UNCHANGED <<mounted, height, width, isGameStarted, isGameOver, score, pipes,
                   birdY, birdVelocity, birdRotation, gameLoopRef,
                   pipeGenerationRef, tickTimers, spawnTimers, starts, ticks>>

\* lines 179-188: the cleanup of the mount effect.  It clears the two
\* handles that the refs hold at that moment.  Interval callbacks that are
\* still active afterwards keep running on the discarded state.
Unmount ==
    /\ mounted
    /\ mounted' = FALSE
    /\ tickTimers' = tickTimers \ {gameLoopRef}
    /\ spawnTimers' = spawnTimers \ {pipeGenerationRef}
    /\ trace' = <<"unmount">>
    /\ UNCHANGED <<height, width, isGameStarted, isGameOver, rIsGameStarted,
                   rIsGameOver, score, pipes, birdY, birdVelocity,
                   birdRotation, gameLoopRef, pipeGenerationRef, starts, ticks>>

Next == Tick \/ SpawnTick \/ HandleTap \/ Render \/ Unmount

\* from the state after construction, on a phone-sized playfield
Spec == Init /\ [][Next]_vars

\* from the state after construction, on a playfield too low for the spawn range
SpecSmall == InitSmall /\ [][Next]_vars

\* from the 28th tick of a free fall
SpecFall == InitFall /\ [][Next]_vars

\* from the 50th tick of a game, the first pipe at the left edge
SpecOld == InitOld /\ [][Next]_vars

\* all of the above
SpecAll == (Init \/ InitSmall \/ InitFall \/ InitOld) /\ [][Next]_vars

\* a running game that receives no further input and is not torn down: only
\* the two interval callbacks and re-renders happen.  setInterval keeps
\* firing the game loop while its handle is active, hence the weak fairness
\* of Tick.
NextNoInput == Tick \/ SpawnTick \/ Render

SpecNoInput ==
    /\ InitFall \/ InitStarted(SmallHeights)
    /\ [][NextNoInput]_vars
    /\ WF_vars(Tick)

\* ---- helpers of the properties ----

Range(t) == {t[i] : i \in 1..Len(t)}

\* the positions of the token tok in the step sequence t
Positions(t, tok) == {i \in 1..Len(t) : t[i] = tok}

\* the step sequence records an obstacle collision: an overlap test that is
\* directly followed by the termination
CollisionIn(t) == \E k \in 1..(Len(t) - 1) : t[k] = "evaluate" /\ t[k + 1] = "terminate"

\* ---- C1 ----
\* C1: an activate input handled while the phase is Ended (handleTap taking
\* its isGameOver branch) leaves the phase Playing with one tick interval and
\* one spawn interval running.
C1_EndedTapStartsPlaying ==
    [][(HandleTap /\ Phase = "Ended" /\ rIsGameOver)
        => (Phase' = "Playing" /\ tickTimers' # {} /\ spawnTimers' # {})]_vars

\* ---- C2 ----
\* C2: reset completeness.  Whenever handleTap runs in an Ended state and
\* takes its isGameOver branch, then after the handler the obstacle list is
\* empty, the score is 0, the avatar is at height/2 and its velocity is 0,
\* whatever the score, the obstacles, the position and the velocity were.
C2_ResetCompleteness ==
    [][(HandleTap /\ Phase = "Ended" /\ rIsGameOver)
        => (/\ pipes' = <<>>
            /\ score' = 0
            /\ birdY' = height \div 2
            /\ birdVelocity' = 0)]_vars

\* a reset has just been handled after a game in which ticks ran
C2_Witness ==
    /\ trace = <<"resetGame">>
    /\ ticks > 0
    /\ Phase = "Idle"
    /\ pipes = <<>> /\ score = 0 /\ birdVelocity = 0

\* ---- C3 ----
\* C3: termination short-circuit.  In a tick in which a termination
\* condition fires, the phase is Ended after the tick and nothing that
\* follows the first firing in that tick advances the obstacles, sets a
\* passed flag (which is what increments the score) or prunes an obstacle.
C3_TerminationShortCircuit ==
    [][Tick =>
        LET t == trace'
        IN  Positions(t, "terminate") # {} =>
              /\ Phase' = "Ended"
              /\ \A i \in Positions(t, "terminate") : \A j \in (i + 1)..Len(t) :
                    t[j] \notin {"advance", "passed", "prune"}]_vars

\* ---- C4 ----
\* C4: when a tick has moved the phase to Ended, both intervals are
\* cancelled after that tick, and from an Ended state left by an ending tick
\* no step other than an activate input changes the score, the obstacles,
\* the avatar position or the avatar velocity.
C4_EndedIsFrozen ==
    [][/\ (Tick /\ Phase # "Ended" /\ Phase' = "Ended")
            => (tickTimers' = {} /\ spawnTimers' = {})
       /\ (Phase = "Ended" /\ "endGame" \in Range(trace) /\ ~HandleTap)
            => UNCHANGED <<score, pipes, birdY, birdVelocity>>]_vars

\* ---- C5 ----
\* C5: in every reachable state there is exactly one active tick interval
\* and one active spawn interval when the phase is Playing, and none when it
\* is Idle or Ended.
C5_OneIntervalWhilePlaying ==
    IF Phase = "Playing"
    THEN Cardinality(tickTimers) = 1 /\ Cardinality(spawnTimers) = 1
    ELSE tickTimers = {} /\ spawnTimers = {}

\* ---- C6 ----
\* C6: passage exactly once.  In every tick, an obstacle's passed flag is
\* set exactly when it was false, the advanced trailing edge x + PIPE_WIDTH
\* is left of the avatar (birdX), and no obstacle up to and including this
\* one collides; a flag that is set stays set; the score grows by exactly
\* the number of flags set in the tick.  No other step changes a passed flag
\* or the score, except the reset, which empties the list and zeroes the
\* score.
C6_PassageExactlyOnce ==
    [][LET n == Len(pipes)
           xa(i) == pipes[i].x - PIPE_SPEED
           hit(i) == /\ 1000 + 200 > xa(i)
                     /\ 1000 - 200 < xa(i) + PIPE_WIDTH
                     /\ \/ birdY' - 200 < pipes[i].topHeight
                        \/ birdY' + 200 > height - pipes[i].bottomHeight
           blocked(i) == \E j \in 1..i : hit(j)
           flips(i) == /\ ~pipes[i].passed
                       /\ xa(i) + PIPE_WIDTH < 1000
                       /\ ~blocked(i)
           gone(i) == xa(i) <= -PIPE_WIDTH
           pos(i) == Cardinality({j \in 1..i : ~gone(j)})
       IN  IF Tick
           THEN /\ Len(pipes') = Cardinality({i \in 1..n : ~gone(i)})
                /\ \A i \in 1..n : ~gone(i) =>
                      pipes'[pos(i)].passed = (pipes[i].passed \/ flips(i))
                /\ score' = score + Cardinality({i \in 1..n : flips(i)})
           ELSE \/ pipes' = <<>> /\ score' = 0
                \/ /\ score' = score
                   /\ Len(pipes') >= n
                   /\ \A i \in 1..n : pipes'[i].passed = pipes[i].passed]_vars

\* a later tick has run over an obstacle that was passed in an earlier tick:
\* the score is 1 and this tick set no flag
C6_Witness ==
    /\ trace # <<>> /\ trace[1] = "integrate"
    /\ "evaluate" \in Range(trace)
    /\ "passed" \notin Range(trace)
    /\ score = 1
    /\ \E i \in 1..Len(pipes) : pipes[i].passed

\* ---- C7 ----
\* C7: collision rule.  A tick ends the game by obstacle collision exactly
\* when, after the advancement, some obstacle satisfies
\* (100 + 20 > x /\ 100 - 20 < x + PIPE_WIDTH) /\ (y - 20 < topHeight \/
\* y + 20 > height - bottomHeight); then the phase is Ended.  If no obstacle
\* satisfies it and the avatar is within the ground / ceiling bounds, the
\* tick leaves the phase as it was.
C7_CollisionRule ==
    [][Tick =>
        LET y == birdY'
            collides == \E i \in 1..Len(pipes) :
                LET x == pipes[i].x - PIPE_SPEED
                IN  /\ 1000 + 200 > x
                    /\ 1000 - 200 < x + PIPE_WIDTH
                    /\ \/ y - 200 < pipes[i].topHeight
                       \/ y + 200 > height - pipes[i].bottomHeight
        IN  /\ collides <=> CollisionIn(trace')
            /\ collides => Phase' = "Ended"
            /\ (~collides /\ y <= height - 1000 /\ y >= 500) => Phase' = Phase]_vars

\* a tick of a running game has ended it by collision, within the bounds
C7_Witness ==
    /\ CollisionIn(trace)
    /\ Phase = "Ended"
    /\ birdY <= height - 1000 /\ birdY >= 500

\* ---- C8 ----
\* C8: boundary termination.  Every tick taken in Playing whose integrated
\* position is above height - 100 or below 50 leaves the phase Ended,
\* whatever the obstacles are; and with height 800, a tick from position
\* height - 50 is out of bounds for every reachable velocity.
C8_BoundaryTermination ==
    /\ [][(Tick /\ Phase = "Playing"
             /\ (birdY' > height - 1000 \/ birdY' < 500))
            => Phase' = "Ended"]_vars
    /\ [](height = 8000 =>
            LET y == (height - 500) + (birdVelocity + 6)
            IN  y > height - 1000 \/ y < 500)

\* a tick has ended the game at the boundary while an obstacle was present
\* and none of them collided
C8_Witness ==
    /\ Len(trace) >= 2 /\ trace[1] = "integrate" /\ trace[2] = "terminate"
    /\ ~CollisionIn(trace)
    /\ pipes # <<>>
    /\ Phase = "Ended"

\* ---- C9 ----
\* C9: tick ordering.  In every tick the physics integration comes first,
\* the obstacle advancement comes before every collision / passage
\* evaluation, and every endGame call comes after the advancement and after
\* an evaluation of the obstacles that are present.
C9_TickOrdering ==
    [][Tick =>
        LET t == trace'
        IN  /\ t[1] = "integrate"
            /\ \A a \in Positions(t, "advance") : \A e \in Positions(t, "evaluate") : a < e
            /\ \A g \in Positions(t, "endGame") :
                  /\ \A a \in Positions(t, "advance") : a < g
                  /\ Positions(t, "evaluate") # {}
                        => \E e \in Positions(t, "evaluate") : e < g]_vars

\* ---- C10 ----
\* C10: spawn bounds.  Every obstacle has topHeight in
\* [100, height - PIPE_GAP - 100], bottomHeight = height - topHeight -
\* PIPE_GAP and bottomHeight >= 0, so that the free window is PIPE_GAP.
C10_SpawnBounds ==
    \A i \in 1..Len(pipes) :
        /\ pipes[i].topHeight >= 1000
        /\ pipes[i].topHeight <= height - PIPE_GAP - 1000
        /\ pipes[i].bottomHeight = height - pipes[i].topHeight - PIPE_GAP
        /\ pipes[i].bottomHeight >= 0
        /\ (height - pipes[i].bottomHeight) - pipes[i].topHeight = PIPE_GAP

\* ---- C11 ----
\* C11: a degenerate configuration is rejected at startup.  When
\* height < PIPE_GAP + 200, the activate input that would start the game
\* starts no interval and does not enter Playing, and no state of such a
\* configuration holds an obstacle.
C11_DegenerateRejected ==
    /\ [][(HandleTap /\ ~rIsGameStarted /\ ~rIsGameOver
             /\ height < PIPE_GAP + 2 * SpawnMargin)
            => (/\ isGameStarted' = isGameStarted
                /\ tickTimers' = tickTimers
                /\ spawnTimers' = spawnTimers)]_vars
    /\ [](height < PIPE_GAP + 2 * SpawnMargin => pipes = <<>>)

\* ---- C12 ----
\* C12: teardown cancellation.  After the unmount cleanup no tick interval
\* and no spawn interval is active, and no state changes afterwards.
C12_TeardownCancels ==
    /\ [](~mounted => (tickTimers = {} /\ spawnTimers = {}))
    /\ [][~mounted => UNCHANGED vars]_vars

\* ---- C13 ----
\* C13: when handleTap runs in Idle and takes its start branch, the phase
\* after it is Playing with a tick interval and a spawn interval active;
\* and the score is 0 in every state that enters Playing.
C13_StartFromIdle ==
    /\ [][(HandleTap /\ Phase = "Idle" /\ ~rIsGameStarted /\ ~rIsGameOver)
            => (Phase' = "Playing" /\ tickTimers' # {} /\ spawnTimers' # {})]_vars
    /\ [][(Phase # "Playing" /\ Phase' = "Playing") => score' = 0]_vars

\* ---- C14 ----
\* C14: impulse.  When handleTap runs in Playing and takes its jump branch,
\* the velocity after it is exactly JUMP_HEIGHT = -12 whatever it was, and
\* the phase, the score, the avatar position and the obstacles are unchanged.
C14_Impulse ==
    [][(HandleTap /\ Phase = "Playing" /\ rIsGameStarted /\ ~rIsGameOver)
        => (/\ birdVelocity' = -120
            /\ Phase' = "Playing"
            /\ score' = score
            /\ birdY' = birdY
            /\ pipes' = pipes)]_vars

\* a jump has just been handled in a running game, after at least one tick
\* had given the avatar a position away from the start
C14_Witness ==
    /\ trace = <<"jump">>
    /\ Phase = "Playing"
    /\ birdVelocity = -120
    /\ birdY # height \div 2

\* ---- C15 ----
\* C15: physics integration.  Every tick adds 0.6 to the velocity and then
\* the new velocity to the position, also when the result is out of bounds;
\* from position 400 and velocity 0 on the 800-unit playfield one tick gives
\* velocity 0.6 and position 400.6.
C15_Integration ==
    [][Tick =>
        /\ birdVelocity' = birdVelocity + 6
        /\ birdY' = birdY + birdVelocity + 6
        /\ (height = 8000 /\ birdY = 4000 /\ birdVelocity = 0)
              => (birdVelocity' = 6 /\ birdY' = 4006)]_vars

\* the first tick of a game on the 800-unit playfield has run
C15_Witness ==
    /\ height = 8000
    /\ trace # <<>> /\ trace[1] = "integrate"
    /\ birdVelocity = 6
    /\ birdY = 4006

\* ---- C16 ----
\* C16: pruning.  In every state, every obstacle of the set has
\* horizontalPosition > -PIPE_WIDTH.
C16_Pruning ==
    \A i \in 1..Len(pipes) : pipes[i].x > -PIPE_WIDTH

\* a tick has just removed an obstacle
C16_Witness ==
    /\ "prune" \in Range(trace)
    /\ \A i \in 1..Len(pipes) : pipes[i].x > -PIPE_WIDTH

\* ---- C17 ----
\* C17: monotonic obstacle motion.  In every tick, the obstacles that stay
\* in the set are, in order, the obstacles whose advanced position is on
\* screen, each with its position lowered by exactly PIPE_SPEED = 2 and its
\* two heights unchanged; a spawn leaves every existing obstacle as it was.
C17_MonotonicMotion ==
    [][LET n == Len(pipes)
           stays(i) == pipes[i].x - 20 > -PIPE_WIDTH
           pos(i) == Cardinality({j \in 1..i : stays(j)})
       IN  /\ Tick =>
                \A i \in 1..n : stays(i) =>
                    /\ pos(i) <= Len(pipes')
                    /\ pipes'[pos(i)].x = pipes[i].x - 20
                    /\ pipes'[pos(i)].topHeight = pipes[i].topHeight
                    /\ pipes'[pos(i)].bottomHeight = pipes[i].bottomHeight
           /\ SpawnTick =>
                /\ Len(pipes') > n
                /\ \A i \in 1..n : pipes'[i] = pipes[i]]_vars

\* a tick has just moved two obstacles
C17_Witness ==
    /\ "advance" \in Range(trace)
    /\ Len(pipes) = 2

\* ---- C18 ----
\* C18: the score is a non-negative integer, and every tick, spawn and
\* impulse step taken in Playing leaves it unchanged or raises it by exactly
\* the number of passage events of that step.
C18_ScoreMonotonic ==
    /\ [](score \in Nat)
    /\ [][Phase = "Playing" =>
            /\ score' >= score
            /\ score' - score = IF Tick THEN Cardinality(Positions(trace', "passed"))
                                ELSE 0]_vars

\* a second passage has been scored in a running game
C18_Witness ==
    /\ Phase = "Playing"
    /\ "passed" \in Range(trace)
    /\ score = 2

\* ---- C19 ----
\* C19: obstacle order and no lost spawn.  Every spawn appends one obstacle
\* at x = width with passed = FALSE behind all the existing ones, which stay;
\* every tick keeps exactly the obstacles whose advanced position is on
\* screen, in their order.
C19_OrderAndNoLostSpawn ==
    [][LET n == Len(pipes)
           stays(i) == pipes[i].x - PIPE_SPEED > -PIPE_WIDTH
           kept == {i \in 1..n : stays(i)}
           pos(i) == Cardinality({j \in 1..i : stays(j)})
       IN  /\ SpawnTick =>
                /\ Len(pipes') = n + 1
                /\ SubSeq(pipes', 1, n) = pipes
                /\ pipes'[n + 1].x = width
                /\ pipes'[n + 1].passed = FALSE
           /\ Tick =>
                /\ Len(pipes') = Cardinality(kept)
                /\ \A i \in kept :
                      /\ pipes'[pos(i)].topHeight = pipes[i].topHeight
                      /\ pipes'[pos(i)].x < pipes[i].x
                /\ \A k \in 1..(Len(pipes') - 1) : pipes'[k].x <= pipes'[k + 1].x]_vars

\* a spawn has just put a second obstacle behind an older one that has moved
C19_Witness ==
    /\ trace = <<"spawn">>
    /\ Len(pipes) = 2
    /\ pipes[1].x < pipes[2].x
    /\ pipes[2].x = width /\ ~pipes[2].passed

====
